---------------------------- MODULE Spec2Model ----------------------------
(***************************************************************************)
(* Two serverless request handlers that proxy an upstream financial-data   *)
(* API: the stock price handler (five concurrent outbound fetches joined   *)
(* by Promise.all) and the earnings transcript handler (parameter          *)
(* validation, then one outbound fetch).  One behaviour of the model is    *)
(* one invocation of one handler.                                          *)
(*                                                                         *)
(* JavaScript strings are sequences of one-character strings, so that      *)
(* toUpperCase, trim, parseInt, the ticker regular expression, template    *)
(* literals and String.prototype.includes are computed character by        *)
(* character.                                                              *)
(***************************************************************************)
EXTENDS Integers, Sequences, FiniteSets, TLC

(***************************************************************************)
(* Bounds of the model.                                                    *)
(***************************************************************************)
\* upstream prices are drawn from 0..MaxPrice
MaxPrice == 1

(***************************************************************************)
(* Program constants.                                                      *)
(***************************************************************************)
MinYear == 2000
MaxYear == 2030
MinQuarter == 1
MaxQuarter == 4
MaxTickerLen == 5

(***************************************************************************)
(* String literals of the source and messages of the runtime.              *)
(***************************************************************************)
SubNotFound ==
    <<"n", "o", "t", " ", "f", "o", "u", "n", "d">>
MsgNoTranscriptFound ==
    <<"N", "o", " ", "t", "r", "a", "n", "s", "c", "r", "i", "p", "t", " ", "f", "o", "u", "n", "d", " ", "f", "o", "r", " ">>
MsgNoTranscriptTail ==
    <<".", " ", "T", "h", "e", " ", "e", "a", "r", "n", "i", "n", "g", "s", " ", "c", "a", "l", "l", " ", "m", "a", "y", " ", "n", "o", "t", " ", "b", "e", " ", "a", "v", "a", "i", "l", "a", "b", "l", "e", " ", "y", "e", "t", " ", "o", "r", " ", "t", "h", "e", " ", "p", "a", "r", "a", "m", "e", "t", "e", "r", "s", " ", "m", "a", "y", " ", "b", "e", " ", "i", "n", "c", "o", "r", "r", "e", "c", "t", ".">>
MsgApiRequestFailed ==
    <<"A", "P", "I", " ", "r", "e", "q", "u", "e", "s", "t", " ", "f", "a", "i", "l", "e", "d", ":", " ">>
MsgApiRequestFailedFor ==
    <<"A", "P", "I", " ", "r", "e", "q", "u", "e", "s", "t", " ", "f", "a", "i", "l", "e", "d", " ", "f", "o", "r", " ">>
MsgNoTranscriptData ==
    <<"N", "o", " ", "t", "r", "a", "n", "s", "c", "r", "i", "p", "t", " ", "d", "a", "t", "a", " ", "a", "v", "a", "i", "l", "a", "b", "l", "e", " ", "f", "o", "r", " ">>
MsgInvalidData ==
    <<"I", "n", "v", "a", "l", "i", "d", " ", "d", "a", "t", "a", " ", "r", "e", "c", "e", "i", "v", "e", "d", " ", "f", "o", "r", " ">>
MsgFetchFailed ==
    <<"f", "e", "t", "c", "h", " ", "f", "a", "i", "l", "e", "d">>
MsgJsonSyntax ==
    <<"U", "n", "e", "x", "p", "e", "c", "t", "e", "d", " ", "e", "n", "d", " ", "o", "f", " ", "J", "S", "O", "N", " ", "i", "n", "p", "u", "t">>
MsgNotAFunction ==
    <<"t", "i", "c", "k", "e", "r", ".", "t", "o", "U", "p", "p", "e", "r", "C", "a", "s", "e", " ", "i", "s", " ", "n", "o", "t", " ", "a", " ", "f", "u", "n", "c", "t", "i", "o", "n">>
TextNotFound ==
    <<"N", "o", "t", " ", "F", "o", "u", "n", "d">>
TextServerError ==
    <<"I", "n", "t", "e", "r", "n", "a", "l", " ", "S", "e", "r", "v", "e", "r", " ", "E", "r", "r", "o", "r">>
TextOK ==
    <<"O", "K">>

(***************************************************************************)
(* String primitives.                                                      *)
(***************************************************************************)
Lower == <<"a", "b", "c", "d", "e", "f", "g", "h", "i", "j", "k", "l", "m",
           "n", "o", "p", "q", "r", "s", "t", "u", "v", "w", "x", "y", "z">>
Upper == <<"A", "B", "C", "D", "E", "F", "G", "H", "I", "J", "K", "L", "M",
           "N", "O", "P", "Q", "R", "S", "T", "U", "V", "W", "X", "Y", "Z">>
Digits == <<"0", "1", "2", "3", "4", "5", "6", "7", "8", "9">>
HexDigits == <<"0", "1", "2", "3", "4", "5", "6", "7", "8", "9",
               "a", "b", "c", "d", "e", "f">>
WhiteSpace == {" ", "\t", "\n"}

Range(s) == {s[i] : i \in DOMAIN s}
IndexOf(c, s) == CHOOSE i \in DOMAIN s : s[i] = c

\* String.prototype.toUpperCase on one character, then on a string
UpperChar(c) == IF c \in Range(Lower) THEN Upper[IndexOf(c, Lower)] ELSE c
ToUpperCase(s) == [i \in DOMAIN s |-> UpperChar(s[i])]
LowerChar(c) == IF c \in Range(Upper) THEN Lower[IndexOf(c, Upper)] ELSE c

\* String.prototype.trim
RECURSIVE TrimStart(_)
TrimStart(s) ==
    IF s # <<>> /\ Head(s) \in WhiteSpace THEN TrimStart(Tail(s)) ELSE s
RECURSIVE TrimEnd(_)
TrimEnd(s) ==
    IF s # <<>> /\ s[Len(s)] \in WhiteSpace
    THEN TrimEnd(SubSeq(s, 1, Len(s) - 1))
    ELSE s
Trim(s) == TrimEnd(TrimStart(s))

\* /^[A-Z]{1,5}$/.test(s)
TickerRegexTest(s) ==
    /\ Len(s) >= 1
    /\ Len(s) <= MaxTickerLen
    /\ \A i \in DOMAIN s : s[i] \in Range(Upper)

\* String.prototype.includes
Includes(s, sub) ==
    \E k \in 0..(Len(s) - Len(sub)) :
        \A j \in 1..Len(sub) : s[k + j] = sub[j]

\* Number.prototype.toString of an integer
RECURSIVE NatToString(_)
NatToString(n) ==
    IF n < 10 THEN <<Digits[n + 1]>>
    ELSE NatToString(n \div 10) \o <<Digits[(n % 10) + 1]>>
NumToString(n) == IF n < 0 THEN <<"-">> \o NatToString(0 - n) ELSE NatToString(n)

\* Array.prototype.join(",") : String(array), what parseInt sees of an array
RECURSIVE JoinComma(_)
JoinComma(a) ==
    IF a = <<>> THEN <<>>
    ELSE IF Len(a) = 1 THEN a[1]
    ELSE a[1] \o <<",">> \o JoinComma(Tail(a))

(***************************************************************************)
(* parseInt(s) with no radix: skip leading white space, an optional sign,  *)
(* an optional 0x/0X prefix (radix 16), then the longest prefix of digits  *)
(* of the radix; NaN when that prefix is empty.  A number is               *)
(* [nan |-> FALSE, val |-> n], NaN is [nan |-> TRUE].                      *)
(***************************************************************************)
NaN == [nan |-> TRUE]
Num(n) == [nan |-> FALSE, val |-> n]
DigitValue(c, radix) ==
    LET l == LowerChar(c)
    IN  IF l \in Range(HexDigits) /\ IndexOf(l, HexDigits) - 1 < radix
        THEN IndexOf(l, HexDigits) - 1
        ELSE -1
RECURSIVE ParseDigits(_, _, _, _)
ParseDigits(s, radix, acc, seen) ==
    IF s # <<>> /\ DigitValue(Head(s), radix) >= 0
    THEN ParseDigits(Tail(s), radix, acc * radix + DigitValue(Head(s), radix), TRUE)
    ELSE IF seen THEN Num(acc) ELSE NaN
ParseInt(str) ==
    LET s1 == TrimStart(str)
        neg == s1 # <<>> /\ Head(s1) = "-"
        s2 == IF s1 # <<>> /\ Head(s1) \in {"+", "-"} THEN Tail(s1) ELSE s1
        hex == Len(s2) >= 2 /\ s2[1] = "0" /\ s2[2] \in {"x", "X"}
        r == IF hex THEN ParseDigits(Tail(Tail(s2)), 16, 0, FALSE)
             ELSE ParseDigits(s2, 10, 0, FALSE)
    IN  IF r.nan THEN NaN ELSE IF neg THEN Num(0 - r.val) ELSE r
IsNaN(n) == n.nan

(***************************************************************************)
(* JavaScript values: query parameters, environment variables and JSON     *)
(* payloads.                                                               *)
(***************************************************************************)
Undefined == [type |-> "undefined"]
JNull == [type |-> "null"]
Str(s) == [type |-> "string", val |-> s]
Arr(a) == [type |-> "array", val |-> a]
JNum(n) == [type |-> "number", val |-> n]
Obj(f) == [type |-> "object", fields |-> f]

\* ToBoolean
Truthy(v) ==
    CASE v.type = "undefined" -> FALSE
      [] v.type = "null" -> FALSE
      [] v.type = "string" -> v.val # <<>>
      [] v.type = "number" -> v.val # 0
      [] OTHER -> TRUE

\* property read o.f on a value that is not null or undefined
Get(o, f) ==
    IF o.type = "object" /\ f \in DOMAIN o.fields THEN o.fields[f] ELSE Undefined

\* String(v), the conversion parseInt applies to its argument
ToStr(v) == IF v.type = "array" THEN JoinComma(v.val) ELSE v.val

\* process.env.NODE_ENV === 'development'
Development == Str(<<"d", "e", "v", "e", "l", "o", "p", "m", "e", "n", "t">>)
Production == Str(<<"p", "r", "o", "d", "u", "c", "t", "i", "o", "n">>)

(***************************************************************************)
(* The HTTP response object res.                                           *)
(***************************************************************************)
CorsHeaders ==
    [AccessControlAllowOrigin |-> "*",
     AccessControlAllowMethods |-> "GET, OPTIONS",
     AccessControlAllowHeaders |-> "Content-Type"]
NoHeaders == <<>>

\* res.status(s).end() and res.status(s).json(body), with the headers set so far
EndResponse(h, s) == [status |-> s, headers |-> h, json |-> FALSE]
JsonResponse(h, s, body) == [status |-> s, headers |-> h, json |-> TRUE, body |-> body]

ErrorBody(e, m) == [error |-> e, message |-> m]

MethodNotAllowed(h) ==
    JsonResponse(h, 405, ErrorBody("Method not allowed",
                                   "This endpoint only accepts GET requests"))
ServerConfigurationError(h) ==
    JsonResponse(h, 500, ErrorBody("Server configuration error",
                                   "API authentication is not properly configured"))
BadRequest(h, e, m) == JsonResponse(h, 400, ErrorBody(e, m))

\* req.method === 'OPTIONS' / req.method !== 'GET'
IsPreflight(method) == method = "OPTIONS"
IsGet(method) == method = "GET"
\* apiKey === undefined
KeyUndefined(apiKey) == apiKey.type = "undefined"
\* !apiKey
KeyMissing(apiKey) == ~Truthy(apiKey)
\* response.ok
Ok(status) == status >= 200 /\ status <= 299

(***************************************************************************)
(* Transcript handler: parameter validation (pure part of the handler).    *)
(* The result is the 400 response, the exception thrown, or the parameters *)
(* passed to fetchEarningsTranscript.                                      *)
(***************************************************************************)
TickerMissing(q) == ~Truthy(q.ticker)
YearMissing(q) == ~Truthy(q.year)
QuarterMissing(q) == ~Truthy(q.quarter)
\* ticker.toUpperCase().trim() ; only strings have toUpperCase
TickerUpper(q) == Trim(ToUpperCase(q.ticker.val))
YearNum(q) == ParseInt(ToStr(q.year))
QuarterNum(q) == ParseInt(ToStr(q.quarter))
TickerInvalid(q) == ~TickerRegexTest(TickerUpper(q))
YearInvalid(q) ==
    LET y == YearNum(q) IN IsNaN(y) \/ y.val < MinYear \/ y.val > MaxYear
QuarterInvalid(q) ==
    LET n == QuarterNum(q) IN IsNaN(n) \/ n.val < MinQuarter \/ n.val > MaxQuarter

\* Validate with the checks grouped per parameter instead of presence first
ValidatePerParameter(h, q) ==
    IF TickerMissing(q) THEN
        [kind |-> "respond",
         response |-> BadRequest(h, "Missing parameter", "Ticker symbol is required")]
    ELSE IF q.ticker.type # "string" THEN
        [kind |-> "throw", message |-> MsgNotAFunction]
    ELSE IF TickerInvalid(q) THEN
        [kind |-> "respond",
         response |-> BadRequest(h, "Invalid parameter", "Ticker must be 1-5 letters")]
    ELSE IF YearMissing(q) THEN
        [kind |-> "respond",
         response |-> BadRequest(h, "Missing parameter", "Year is required")]
    ELSE IF YearInvalid(q) THEN
        [kind |-> "respond",
         response |-> BadRequest(h, "Invalid parameter", "Year must be between 2000 and 2030")]
    ELSE IF QuarterMissing(q) THEN
        [kind |-> "respond",
         response |-> BadRequest(h, "Missing parameter", "Quarter is required")]
    ELSE IF QuarterInvalid(q) THEN
        [kind |-> "respond",
         response |-> BadRequest(h, "Invalid parameter", "Quarter must be between 1 and 4")]
    ELSE
        [kind |-> "fetch",
         ticker |-> TickerUpper(q),
         year |-> NumToString(YearNum(q).val),
         quarter |-> NumToString(QuarterNum(q).val)]

Validate(h, q) ==
    IF TickerMissing(q) THEN
        [kind |-> "respond",
         response |-> BadRequest(h, "Missing parameter", "Ticker symbol is required")]
    ELSE IF YearMissing(q) THEN
        [kind |-> "respond",
         response |-> BadRequest(h, "Missing parameter", "Year is required")]
    ELSE IF QuarterMissing(q) THEN
        [kind |-> "respond",
         response |-> BadRequest(h, "Missing parameter", "Quarter is required")]
    ELSE IF q.ticker.type # "string" THEN
        \* an array has no toUpperCase: TypeError at the call
        [kind |-> "throw", message |-> MsgNotAFunction]
    ELSE IF TickerInvalid(q) THEN
        [kind |-> "respond",
         response |-> BadRequest(h, "Invalid parameter", "Ticker must be 1-5 letters")]
    ELSE IF YearInvalid(q) THEN
        [kind |-> "respond",
         response |-> BadRequest(h, "Invalid parameter", "Year must be between 2000 and 2030")]
    ELSE IF QuarterInvalid(q) THEN
        [kind |-> "respond",
         response |-> BadRequest(h, "Invalid parameter", "Quarter must be between 1 and 4")]
    ELSE
        [kind |-> "fetch",
         ticker |-> TickerUpper(q),
         year |-> NumToString(YearNum(q).val),
         quarter |-> NumToString(QuarterNum(q).val)]

(***************************************************************************)
(* fetchEarningsTranscript: the error messages it throws and its check of  *)
(* the payload.                                                            *)
(***************************************************************************)
\* `${ticker} ${year} Q${quarter}`
Combo(p) == p.ticker \o <<" ">> \o p.year \o <<" ", "Q">> \o p.quarter
TranscriptNotOkMessage(p, status, statusText) ==
    IF status = 404
    THEN MsgNoTranscriptFound \o Combo(p) \o MsgNoTranscriptTail
    ELSE MsgApiRequestFailed \o NumToString(status) \o <<" ">> \o statusText
\* !data || !data.transcript
TranscriptDataMissing(data) == ~Truthy(data) \/ ~Truthy(Get(data, "transcript"))
TranscriptNoDataMessage(p) == MsgNoTranscriptData \o Combo(p)

\* the handler's catch block
StatusCodeFor(message) == IF Includes(message, SubNotFound) THEN 404 ELSE 500
TranscriptCatch(h, e, message) ==
    LET statusCode == StatusCodeFor(message)
        base == [error |-> IF statusCode = 404 THEN "Not found"
                           ELSE "Internal server error",
                 message |-> message]
    IN  JsonResponse(h, statusCode,
            IF e.NODE_ENV = Development
            THEN [error |-> base.error, message |-> base.message, details |-> "error.stack"]
            ELSE base)

\* { ...transcriptData, fetchedAt: new Date().toISOString() }
TranscriptSuccess(h, data) ==
    JsonResponse(h, 200,
        [f \in DOMAIN data.fields \cup {"fetchedAt"} |->
            IF f = "fetchedAt" THEN Str(<<"n", "o", "w">>) ELSE data.fields[f]])

(***************************************************************************)
(* Price handler: the company list, fetchStockPrice's messages and check   *)
(* of the payload, the map callback and Promise.all.                       *)
(***************************************************************************)
COMPETITORS ==
    <<[ticker |-> <<"A", "A", "P", "L">>, name |-> "Apple Inc."],
      [ticker |-> <<"M", "S", "F", "T">>, name |-> "Microsoft Corporation"],
      [ticker |-> <<"G", "O", "O", "G", "L">>, name |-> "Alphabet Inc. (Google)"],
      [ticker |-> <<"M", "E", "T", "A">>, name |-> "Meta Platforms Inc."],
      [ticker |-> <<"A", "M", "Z", "N">>, name |-> "Amazon.com Inc."]>>
N == Len(COMPETITORS)

StockNotOkMessage(ticker, status, statusText) ==
    MsgApiRequestFailedFor \o ticker \o <<":", " ">> \o NumToString(status)
        \o <<" ">> \o statusText
\* !data || typeof data.price === 'undefined'
StockDataInvalid(data) == ~Truthy(data) \/ Get(data, "price").type = "undefined"
StockInvalidMessage(ticker) == MsgInvalidData \o ticker

\* the object returned by the try branch of the map callback
SuccessResult(company, stockData) ==
    IF Truthy(Get(stockData, "exchange"))
    THEN [ticker |-> company.ticker, companyName |-> company.name,
          price |-> Get(stockData, "price"),
          exchange |-> Get(stockData, "exchange"), success |-> TRUE]
    ELSE [ticker |-> company.ticker, companyName |-> company.name,
          price |-> Get(stockData, "price"), success |-> TRUE]
\* the object returned by the catch branch of the map callback
FailureResult(company, message) ==
    [ticker |-> company.ticker, companyName |-> company.name,
     price |-> JNull, error |-> message, success |-> FALSE]

\* Promise.all: the values array, one slot per input promise
Hole == [hole |-> TRUE]
IsHole(v) == "hole" \in DOMAIN v
NoValues == [i \in 1..N |-> Hole]
\* values collected in completion order: the value goes to the first free slot
ResolveElementPush(values, i, v) ==
    LET k == CHOOSE n \in DOMAIN values :
                 /\ IsHole(values[n])
                 /\ \A m \in 1..(n - 1) : ~IsHole(values[m])
    IN  [values EXCEPT ![k] = v]
\* a fulfilled promise i stores its value in slot i
ResolveElement(values, i, v) == [values EXCEPT ![i] = v]
\* a join that fulfils with the first promise (Promise.race)
AnyFulfilled(values) == \E i \in DOMAIN values : ~IsHole(values[i])
\* Promise.all fulfils when no promise remains
AllFulfilled(values) == \A i \in DOMAIN values : ~IsHole(values[i])

\* stockResults.filter(stock => stock.success)
RECURSIVE Filter(_)
Filter(results) ==
    IF results = <<>> THEN <<>>
    ELSE IF ~IsHole(Head(results)) /\ Head(results).success
         THEN <<Head(results)>> \o Filter(Tail(results))
         ELSE Filter(Tail(results))
\* a 503 as soon as one fetch failed
NotAllSucceeded(successfulFetches) == Len(successfulFetches) < N
\* a 503 check that never fires
NeverUnavailable(successfulFetches) == Len(successfulFetches) < 0
\* successfulFetches.length === 0
NoneSucceeded(successfulFetches) == Len(successfulFetches) = 0

ServiceUnavailable(h, stockResults) ==
    JsonResponse(h, 503,
        [error |-> "Service unavailable",
         message |-> "Unable to fetch any stock data at this time. Please try again later.",
         details |-> stockResults])
StocksSuccess(h, stockResults, successfulFetches) ==
    JsonResponse(h, 200,
        [timestamp |-> Str(<<"n", "o", "w">>),
         dataPoints |-> Len(stockResults),
         successfulFetches |-> Len(successfulFetches),
         stocks |-> stockResults])
StocksResponse(h, stockResults) ==
    LET successfulFetches == Filter(stockResults)
    IN  IF NoneSucceeded(successfulFetches)
        THEN ServiceUnavailable(h, stockResults)
        ELSE StocksSuccess(h, stockResults, successfulFetches)

(***************************************************************************)
(* Inputs: requests, environments and what the upstream API may answer.    *)
(***************************************************************************)
Methods == {"GET", "OPTIONS", "POST"}
ApiKeys == {Undefined, Str(<<>>), Str(<<"k">>)}
NodeEnvs == {Undefined, Development, Production}
Envs == [API_KEY : ApiKeys, NODE_ENV : NodeEnvs]
\* the price handler reads NODE_ENV only in its outer catch block, which no
\* statement of its try block reaches
StocksEnvs == [API_KEY : ApiKeys, NODE_ENV : {Undefined}]

TickerInputs ==
    {Undefined, Str(<<>>),
     Str(<<"m", "s", "f", "t", " ">>), Str(<<"A">>),
     Str(<<"A", "B", "C", "D", "E">>), Str(<<"A", "B", "C", "D", "E", "F">>),
     Str(<<"1", "2", "A", "B">>), Str(<<" ">>),
     Arr(<<(<<"A">>), (<<"B">>)>>)}
YearInputs ==
    {Undefined, Str(<<>>),
     Str(<<"1", "9", "9", "9">>), Str(<<"2", "0", "0", "0">>),
     Str(<<"2", "0", "3", "0">>), Str(<<"2", "0", "3", "1">>),
     Str(<<"2", "0", "2", "4", "a">>), Str(<<"y">>),
     Arr(<<(<<"2", "0", "2", "4">>), (<<"1", "9", "9", "9">>)>>)}
QuarterInputs ==
    {Undefined, Str(<<>>),
     Str(<<"0">>), Str(<<"1">>), Str(<<"4">>), Str(<<"5">>),
     Str(<<"4", ".", "9">>), Str(<<"Q", "1">>), Str(<<"-", "1">>)}
Queries == [ticker : TickerInputs, year : YearInputs, quarter : QuarterInputs]
NoQuery == [ticker |-> Undefined, year |-> Undefined, quarter |-> Undefined]

\* how the promise returned by fetch() settles
FetchOutcomes ==
    {[kind |-> "reject", message |-> MsgFetchFailed],
     [kind |-> "response", status |-> 200, statusText |-> TextOK],
     [kind |-> "response", status |-> 404, statusText |-> TextNotFound],
     [kind |-> "response", status |-> 500, statusText |-> TextServerError]}
\* the price endpoint takes a known ticker: its failures are server errors
StockFetchOutcomes == {o \in FetchOutcomes : o.kind = "reject" \/ o.status # 404}
\* how the promise returned by response.json() settles
StockPayloads ==
    {JNull, Obj([exchange |-> Str(<<"N", "Y", "S", "E">>)]),
     Obj([price |-> JNull]),
     Obj([price |-> JNum(MaxPrice), exchange |-> Str(<<"N", "Y", "S", "E">>)])}
    \cup {Obj([price |-> JNum(p)]) : p \in 0..MaxPrice}
TranscriptPayloads ==
    {JNull, Obj([date |-> Str(<<"d">>)]),
     Obj([transcript |-> Str(<<>>)]),
     Obj([transcript |-> Str(<<"H", "i">>), date |-> Str(<<"d">>)])}
JsonOutcomes(payloads) ==
    {[kind |-> "reject", message |-> MsgJsonSyntax]}
    \cup {[kind |-> "data", data |-> d] : d \in payloads}

(***************************************************************************)
(* State of one invocation.                                                *)
(***************************************************************************)
VARIABLES
    pc,            \* "idle", "awaiting" (suspended at an await) or "returned"
    endpoint,      \* "none", "stocks" or "transcript"
    req,           \* [method, query]
    env,           \* process.env: [API_KEY, NODE_ENV]
    headers,       \* headers set on res
    sent,          \* the responses sent on res, in order
    outbound,      \* the upstream requests issued, in order
    calls,         \* per outbound request: the state of its fetch function
    stockResults,  \* the values array of Promise.all(stockPromises)
    reordered      \* history: some stock promise fulfilled before an earlier one

vars ==
    <<pc, endpoint, req, env, headers, sent, outbound, calls, stockResults,
      reordered>>

\* fetchStockPrice / fetchEarningsTranscript: awaiting fetch, awaiting
\* response.json() (status is response.status), returned or thrown
Fetching == [st |-> "fetching", status |-> 0]
Parsing(status) == [st |-> "parsing", status |-> status]
Returned(status) == [st |-> "returned", status |-> status]
Thrown(status) == [st |-> "thrown", status |-> status]
Settled(c) == c.st \in {"returned", "thrown"}

Init ==
    /\ pc = "idle"
    /\ endpoint = "none"
    /\ req = [method |-> "GET", query |-> NoQuery]
    /\ env = [API_KEY |-> Undefined, NODE_ENV |-> Undefined]
    /\ headers = NoHeaders
    /\ sent = <<>>
    /\ outbound = <<>>
    /\ calls = <<>>
    /\ stockResults = NoValues
    /\ reordered = FALSE

\* the method check placed before the preflight check
PreambleMethodFirst(h, method) ==
    IF ~IsGet(method) THEN [kind |-> "respond", response |-> MethodNotAllowed(h)]
    ELSE IF IsPreflight(method)
         THEN [kind |-> "respond", response |-> EndResponse(h, 200)]
         ELSE [kind |-> "continue"]
\* the part of both handlers before the try block
Preamble(h, method) ==
    IF IsPreflight(method) THEN [kind |-> "respond", response |-> EndResponse(h, 200)]
    ELSE IF ~IsGet(method) THEN [kind |-> "respond", response |-> MethodNotAllowed(h)]
    ELSE [kind |-> "continue"]

\* fetch(url, {headers: {'X-Api-Key': apiKey}}) of fetchStockPrice
StockRequest(company, apiKey) ==
    [path |-> "/v1/stockprice", ticker |-> company.ticker, key |-> apiKey]
\* fetch(url, ...) of fetchEarningsTranscript
TranscriptRequest(p, apiKey) ==
    [path |-> "/v1/earningstranscript", ticker |-> p.ticker, year |-> p.year,
     quarter |-> p.quarter, key |-> apiKey]

\* COMPETITORS.map(async (company) => ...): every callback runs up to its await
IssueAll(apiKey) == [i \in 1..N |-> StockRequest(COMPETITORS[i], apiKey)]

\* the price handler from its entry to its first suspension
StocksEntry(h, method, e) ==
    LET pre == Preamble(h, method)
    IN  IF pre.kind = "respond" THEN pre
        ELSE IF KeyMissing(e.API_KEY)
             THEN [kind |-> "respond", response |-> ServerConfigurationError(h)]
             ELSE [kind |-> "fetch", requests |-> IssueAll(e.API_KEY)]

\* the transcript handler from its entry to its first suspension
TranscriptEntry(h, method, q, e) ==
    LET pre == Preamble(h, method)
    IN  IF pre.kind = "respond" THEN pre
        ELSE IF KeyMissing(e.API_KEY)
             THEN [kind |-> "respond", response |-> ServerConfigurationError(h)]
             ELSE LET v == Validate(h, q)
                  IN  CASE v.kind = "respond" -> v
                        [] v.kind = "throw" ->
                             [kind |-> "respond",
                              response |-> TranscriptCatch(h, e, v.message)]
                        [] OTHER ->
                             [kind |-> "fetch",
                              requests |-> <<TranscriptRequest(v, e.API_KEY)>>]

Start(ep, m, q, e, step) ==
    /\ endpoint' = ep
    /\ req' = [method |-> m, query |-> q]
    /\ env' = e
    /\ headers' = CorsHeaders
    /\ stockResults' = NoValues
    /\ reordered' = FALSE
    /\ IF step.kind = "respond"
       THEN /\ sent' = Append(sent, step.response)
            /\ outbound' = outbound
            /\ calls' = calls
            /\ pc' = "returned"
       ELSE /\ sent' = sent
            /\ outbound' = outbound \o step.requests
            /\ calls' = [i \in 1..Len(step.requests) |-> Fetching]
            /\ pc' = "awaiting"

\* the platform invokes the price handler
InvokeStocks ==
    /\ pc = "idle"
    /\ \E m \in Methods, e \in StocksEnvs :
          Start("stocks", m, NoQuery, e, StocksEntry(CorsHeaders, m, e))

\* the platform invokes the transcript handler
InvokeTranscript ==
    /\ pc = "idle"
    /\ \E m \in Methods, q \in Queries, e \in Envs :
          Start("transcript", m, q, e, TranscriptEntry(CorsHeaders, m, q, e))

(***************************************************************************)
(* Price handler: the continuations of the five map callbacks.             *)
(***************************************************************************)
\* promise i of stockPromises fulfils with value v
Fulfil(i, v, c) ==
    /\ stockResults' = ResolveElement(stockResults, i, v)
    /\ calls' = [calls EXCEPT ![i] = c]
    /\ reordered' = (reordered \/ \E j \in 1..(i - 1) : ~Settled(calls[j]))
    /\ UNCHANGED <<pc, endpoint, req, env, headers, sent, outbound>>

\* the fetch of company i settles: a rejection or a non-ok response throws
StockFetchSettle(i) ==
    /\ pc = "awaiting"
    /\ endpoint = "stocks"
    /\ calls[i].st = "fetching"
    /\ \E o \in StockFetchOutcomes :
          IF o.kind = "reject" THEN
              Fulfil(i, FailureResult(COMPETITORS[i], o.message), Thrown(0))
          ELSE IF ~Ok(o.status) THEN
              Fulfil(i, FailureResult(COMPETITORS[i],
                  StockNotOkMessage(COMPETITORS[i].ticker, o.status, o.statusText)),
                  Thrown(o.status))
          ELSE
              /\ calls' = [calls EXCEPT ![i] = Parsing(o.status)]
              /\ UNCHANGED <<pc, endpoint, req, env, headers, sent, outbound,
                             stockResults, reordered>>

\* response.json() of company i settles
StockJsonSettle(i) ==
    /\ pc = "awaiting"
    /\ endpoint = "stocks"
    /\ calls[i].st = "parsing"
    /\ \E o \in JsonOutcomes(StockPayloads) :
          IF o.kind = "reject" THEN
              Fulfil(i, FailureResult(COMPETITORS[i], o.message),
                  Thrown(calls[i].status))
          ELSE IF StockDataInvalid(o.data) THEN
              Fulfil(i, FailureResult(COMPETITORS[i],
                  StockInvalidMessage(COMPETITORS[i].ticker)),
                  Thrown(calls[i].status))
          ELSE
              Fulfil(i, SuccessResult(COMPETITORS[i], o.data),
                  Returned(calls[i].status))

\* the 503 branch without its return: the handler goes on to send the 200
StocksRespondNoReturn ==
    /\ pc = "awaiting"
    /\ endpoint = "stocks"
    /\ AllFulfilled(stockResults)
    /\ sent' =
          IF NoneSucceeded(Filter(stockResults))
          THEN <<ServiceUnavailable(headers, stockResults),
                 StocksSuccess(headers, stockResults, Filter(stockResults))>>
          ELSE <<StocksSuccess(headers, stockResults, Filter(stockResults))>>
    /\ pc' = "returned"
    /\ UNCHANGED <<endpoint, req, env, headers, outbound, calls, stockResults,
                   reordered>>

\* await Promise.all(stockPromises) resumes the handler, which responds
StocksRespond ==
    /\ pc = "awaiting"
    /\ endpoint = "stocks"
    /\ AllFulfilled(stockResults)
    /\ sent' = Append(sent, StocksResponse(headers, stockResults))
    /\ pc' = "returned"
    /\ UNCHANGED <<endpoint, req, env, headers, outbound, calls, stockResults,
                   reordered>>

(***************************************************************************)
(* Transcript handler: the continuations of fetchEarningsTranscript.       *)
(***************************************************************************)
Respond(response, c) ==
    /\ sent' = Append(sent, response)
    /\ calls' = [calls EXCEPT ![1] = c]
    /\ pc' = "returned"
    /\ UNCHANGED <<endpoint, req, env, headers, outbound, stockResults, reordered>>

\* the fetch settles: a rejection or a non-ok response throws to the handler's catch
TranscriptFetchSettle ==
    /\ pc = "awaiting"
    /\ endpoint = "transcript"
    /\ calls[1].st = "fetching"
    /\ \E o \in FetchOutcomes :
          IF o.kind = "reject" THEN
              Respond(TranscriptCatch(headers, env, o.message), Thrown(0))
          ELSE IF ~Ok(o.status) THEN
              Respond(TranscriptCatch(headers, env,
                  TranscriptNotOkMessage(outbound[1], o.status, o.statusText)),
                  Thrown(o.status))
          ELSE
              /\ calls' = [calls EXCEPT ![1] = Parsing(o.status)]
              /\ UNCHANGED <<pc, endpoint, req, env, headers, sent, outbound,
                             stockResults, reordered>>

\* response.json() settles
TranscriptJsonSettle ==
    /\ pc = "awaiting"
    /\ endpoint = "transcript"
    /\ calls[1].st = "parsing"
    /\ \E o \in JsonOutcomes(TranscriptPayloads) :
          IF o.kind = "reject" THEN
              Respond(TranscriptCatch(headers, env, o.message),
                  Thrown(calls[1].status))
          ELSE IF TranscriptDataMissing(o.data) THEN
              Respond(TranscriptCatch(headers, env,
                  TranscriptNoDataMessage(outbound[1])), Thrown(calls[1].status))
          ELSE
              Respond(TranscriptSuccess(headers, o.data), Returned(calls[1].status))

Next ==
    \/ InvokeStocks
    \/ InvokeTranscript
    \/ \E i \in 1..N : StockFetchSettle(i)
    \/ \E i \in 1..N : StockJsonSettle(i)
    \/ StocksRespond
    \/ TranscriptFetchSettle
    \/ TranscriptJsonSettle

Spec == Init /\ [][Next]_vars

\* Every outbound call settles (the proviso of the termination claim) and the
\* event loop runs the continuation of a fulfilled Promise.all.
Fairness ==
    /\ \A i \in 1..N : WF_vars(StockFetchSettle(i))
    /\ \A i \in 1..N : WF_vars(StockJsonSettle(i))
    /\ WF_vars(StocksRespond)
    /\ WF_vars(TranscriptFetchSettle)
    /\ WF_vars(TranscriptJsonSettle)
FairSpec == Spec /\ Fairness

(***************************************************************************)
(* Properties.                                                             *)
(***************************************************************************)
Responded == Len(sent) >= 1
StocksGet == endpoint = "stocks" /\ req.method = "GET" /\ Truthy(env.API_KEY)
TranscriptGet == endpoint = "transcript" /\ req.method = "GET" /\ Truthy(env.API_KEY)
FailedFetches == {i \in DOMAIN calls : calls[i].st = "thrown"}
Tickers(list) == [i \in DOMAIN list |-> list[i].ticker]
CompetitorTickers ==
    <<(<<"A", "A", "P", "L">>), (<<"M", "S", "F", "T">>),
      (<<"G", "O", "O", "G", "L">>), (<<"M", "E", "T", "A">>),
      (<<"A", "M", "Z", "N">>)>>

\* C1 as stated: whichever fetches fail and in whatever order the five calls
\* complete, the response of the price handler to a GET with API_KEY configured
\* has a stocks array of exactly five entries, tickers AAPL, MSFT, GOOGL, META,
\* AMZN in that order.
C1_StocksArrayAlways ==
    (StocksGet /\ Responded) =>
        /\ "stocks" \in DOMAIN sent[1].body
        /\ Tickers(sent[1].body.stocks) = CompetitorTickers

\* C1 amended: the response carries the five StockResults in COMPETITORS order
\* whichever fetches fail and in whatever order the calls complete; the list is
\* the stocks array when at least one fetch succeeded, and the details array of
\* the 503 (which has no stocks array) when all five failed.
C1_ResultsInCompanyOrder ==
    (StocksGet /\ Responded) =>
        LET body == sent[1].body
            list == IF FailedFetches = 1..N THEN "details" ELSE "stocks"
        IN  /\ DOMAIN body \cap {"stocks", "details"} = {list}
            /\ Len(body[list]) = 5
            /\ Tickers(body[list]) = CompetitorTickers

\* a 200 whose calls completed out of order, with a failed fetch among them
C1_Witness ==
    /\ StocksGet
    /\ Responded
    /\ reordered
    /\ FailedFetches # {}
    /\ sent[1].status = 200
    /\ Tickers(sent[1].body.stocks) = CompetitorTickers

\* C2: if exactly k of the five fetches fail, 1 <= k < 5, the price handler
\* answers 200 with dataPoints = 5, successfulFetches = 5 - k, and entry i has
\* success false exactly when fetch i failed: no entry depends on another
\* ticker's fetch.
C2_PartialFailure ==
    (StocksGet /\ Responded /\ Cardinality(FailedFetches) \in 1..(N - 1)) =>
        /\ sent[1].status = 200
        /\ sent[1].body.dataPoints = 5
        /\ sent[1].body.successfulFetches = 5 - Cardinality(FailedFetches)
        /\ \A i \in 1..5 :
              /\ sent[1].body.stocks[i].success = (i \notin FailedFetches)
              /\ sent[1].body.stocks[i].ticker = CompetitorTickers[i]

C2_Witness ==
    /\ StocksGet
    /\ Responded
    /\ FailedFetches = {2, 5}
    /\ sent[1].status = 200
    /\ sent[1].body.successfulFetches = 3
    /\ ~sent[1].body.stocks[2].success
    /\ sent[1].body.stocks[3].success

\* C3: the price handler answers 503 if and only if all five fetches failed;
\* the 503 body carries the five failed StockResults as details, and no 200 is
\* sent.
C3_AllFailedIff503 ==
    (StocksGet /\ Responded) =>
        /\ (sent[1].status = 503) <=> (FailedFetches = 1..5)
        /\ (FailedFetches = 1..5) =>
              /\ Len(sent[1].body.details) = 5
              /\ \A i \in 1..5 :
                    /\ ~sent[1].body.details[i].success
                    /\ sent[1].body.details[i].ticker = CompetitorTickers[i]
              /\ \A k \in DOMAIN sent : sent[k].status # 200

C3_Witness ==
    /\ StocksGet
    /\ Responded
    /\ FailedFetches = 1..5
    /\ sent[1].status = 503

\* C4: transcript handler, GET, API_KEY configured, valid parameters: when the
\* upstream call returns HTTP 404 the caller gets HTTP 404 with error
\* "Not found".
C4_Upstream404Is404 ==
    (TranscriptGet /\ Responded /\ calls # <<>> /\ calls[1].status = 404) =>
        /\ sent[1].status = 404
        /\ sent[1].body.error = "Not found"

\* C5: every StockResult in a response of the price handler: success implies
\* price is a number and there is no error field; failure implies price is null
\* and error is a non-empty message.
StockResultInvariant(r) ==
    /\ r.success => (r.price.type = "number" /\ "error" \notin DOMAIN r)
    /\ ~r.success =>
          (r.price = JNull /\ "error" \in DOMAIN r /\ Len(r.error) > 0)
C5_StockResultInvariant ==
    (StocksGet /\ Responded) =>
        LET body == sent[1].body
            list == IF "stocks" \in DOMAIN body THEN body.stocks ELSE body.details
        IN  \A i \in DOMAIN list : StockResultInvariant(list[i])

\* what the claims call a valid request of the transcript handler
Present(v) == v.type # "undefined"
TickerWellFormed(q) ==
    /\ q.ticker.type = "string"
    /\ LET t == Trim(ToUpperCase(q.ticker.val))
       IN  Len(t) \in 1..5 /\ \A i \in DOMAIN t : t[i] \in Range(Upper)
YearInRange(q) ==
    /\ Present(q.year)
    /\ LET y == ParseInt(ToStr(q.year)) IN ~y.nan /\ y.val >= 2000 /\ y.val <= 2030
QuarterInRange(q) ==
    /\ Present(q.quarter)
    /\ LET n == ParseInt(ToStr(q.quarter)) IN ~n.nan /\ n.val >= 1 /\ n.val <= 4
Accepted(q) ==
    /\ Present(q.ticker) /\ Present(q.year) /\ Present(q.quarter)
    /\ TickerWellFormed(q)
    /\ YearInRange(q)
    /\ QuarterInRange(q)

\* C6: transcript handler, GET, API_KEY configured: an outbound request is
\* issued if and only if ticker, year and quarter are present, the ticker
\* uppercased and trimmed is 1 to 5 letters, the year parses to an integer in
\* [2000, 2030] and the quarter to an integer in [1, 4]; in every other case
\* the response is HTTP 400 and no outbound request is issued.
C6_OutboundIffValid ==
    (TranscriptGet /\ pc # "idle") =>
        /\ (outbound # <<>>) <=> Accepted(req.query)
        /\ ~Accepted(req.query) =>
              /\ Responded
              /\ sent[1].status = 400
              /\ outbound = <<>>

\* C6 on requests whose ticker is a single string (no repeated ticker key)
C6_SingleTicker ==
    (TranscriptGet /\ pc # "idle" /\ req.query.ticker.type # "array") =>
        /\ (outbound # <<>>) <=> Accepted(req.query)
        /\ ~Accepted(req.query) =>
              /\ Responded
              /\ sent[1].status = 400
              /\ outbound = <<>>

\* the six checks in the order the claim gives, each with its error and message
Violated(q) ==
    <<~Truthy(q.ticker),
      ~Truthy(q.year),
      ~Truthy(q.quarter),
      ~TickerWellFormed(q),
      ~YearInRange(q),
      ~QuarterInRange(q)>>
CheckError ==
    <<"Missing parameter", "Missing parameter", "Missing parameter",
      "Invalid parameter", "Invalid parameter", "Invalid parameter">>
CheckMessage ==
    <<"Ticker symbol is required", "Year is required", "Quarter is required",
      "Ticker must be 1-5 letters", "Year must be between 2000 and 2030",
      "Quarter must be between 1 and 4">>

\* C7: a 400 of the transcript handler reports the first violated check of the
\* sequence ticker missing, year missing, quarter missing, ticker format, year
\* range, quarter range, and only that one: the three presence checks come
\* before every format or range check.
C7_FirstViolatedCheck ==
    (TranscriptGet /\ Responded /\ sent[1].status = 400) =>
        \E k \in 1..6 :
            /\ Violated(req.query)[k]
            /\ \A j \in 1..(k - 1) : ~Violated(req.query)[j]
            /\ sent[1].body = [error |-> CheckError[k], message |-> CheckMessage[k]]

\* a malformed ticker, an out-of-range year and no quarter: the quarter is reported
C7_Witness ==
    /\ TranscriptGet
    /\ Responded
    /\ req.query.ticker = Str(<<"1", "2", "A", "B">>)
    /\ req.query.year = Str(<<"1", "9", "9", "9">>)
    /\ req.query.quarter = Undefined
    /\ sent[1].status = 400
    /\ sent[1].body.message = "Quarter is required"

\* C8: a GET handled while API_KEY is not configured is answered with HTTP 500,
\* error "Server configuration error", and no outbound request is issued at any
\* point; in the transcript handler whatever the query parameters are.
C8_MissingKeyShortCircuits ==
    (endpoint # "none" /\ req.method = "GET" /\ ~Truthy(env.API_KEY)) =>
        /\ Len(sent) = 1
        /\ sent[1].status = 500
        /\ sent[1].body.error = "Server configuration error"
        /\ outbound = <<>>

\* the key is missing and the transcript parameters are all valid
C8_Witness ==
    /\ endpoint = "transcript"
    /\ req.method = "GET"
    /\ env.API_KEY = Str(<<>>)
    /\ Accepted(req.query)
    /\ Len(sent) = 1
    /\ sent[1].status = 500
    /\ outbound = <<>>

\* C9: an OPTIONS request to either handler is answered with HTTP 200, an empty
\* body and the three CORS headers, and no outbound request is issued, whether
\* or not API_KEY is configured and whatever the query parameters are.
C9_Preflight ==
    (endpoint # "none" /\ req.method = "OPTIONS") =>
        /\ Len(sent) = 1
        /\ sent[1].status = 200
        /\ ~sent[1].json
        /\ sent[1].headers =
              [AccessControlAllowOrigin |-> "*",
               AccessControlAllowMethods |-> "GET, OPTIONS",
               AccessControlAllowHeaders |-> "Content-Type"]
        /\ outbound = <<>>

\* a preflight of the transcript handler with no key and no ticker
C9_Witness ==
    /\ endpoint = "transcript"
    /\ req.method = "OPTIONS"
    /\ env.API_KEY = Undefined
    /\ req.query.ticker = Undefined
    /\ Len(sent) = 1
    /\ sent[1].status = 200

\* C10: price handler, GET, API_KEY configured: the five outbound calls are all
\* issued before the handler first suspends, none waiting for another, and no
\* response is sent in a state where fewer than five calls have settled; so a
\* call that never settles leaves the request without a response.
C10_FanInBarrier ==
    (StocksGet /\ pc # "idle") =>
        /\ Len(outbound) = 5
        /\ \A i \in 1..5 : outbound[i].ticker = CompetitorTickers[i]
        /\ Responded => \A i \in 1..5 : Settled(calls[i])
        /\ (\E i \in 1..5 : ~Settled(calls[i])) => sent = <<>>

\* four calls have settled, the third is still in flight, nothing is sent
C10_Witness ==
    /\ StocksGet
    /\ pc = "awaiting"
    /\ Len(outbound) = 5
    /\ \A i \in {1, 2, 4, 5} : Settled(calls[i])
    /\ calls[3].st = "fetching"
    /\ sent = <<>>

\* no upstream request is repeated within an invocation
IssuedOnce ==
    \A i, j \in DOMAIN outbound :
        (outbound[i].path = outbound[j].path /\ outbound[i].ticker = outbound[j].ticker)
            => i = j

\* C11: every invocation of either handler, whatever the method, the key, the
\* query and the upstream answers, sends exactly one response, never a second
\* one and, when every outbound call it issued settles, never none; no
\* outbound call is issued twice for a ticker within the invocation.
C11_ExactlyOneResponse ==
    /\ [](Len(sent) <= 1 /\ IssuedOnce /\ (pc = "returned" => Len(sent) = 1))
    /\ (endpoint # "none") ~> (pc = "returned" /\ Len(sent) = 1)

\* a price invocation whose third fetch failed has responded once, with five
\* requests issued in all
C11_Witness ==
    /\ StocksGet
    /\ pc = "returned"
    /\ Len(sent) = 1
    /\ calls[3].st = "thrown"
    /\ Len(outbound) = 5

=============================================================================
